---- MODULE Spec2Model ----
(***************************************************************************)
(* A model of klein's application object (src/klein/app.py): the routing   *)
(* configuration kept by Klein (the werkzeug Map, the endpoint dict, the   *)
(* pre-dispatch request handlers, the extra factories), the decorator      *)
(* returned by Klein.route, Klein.routeUrl, Klein.addRequestHandler,       *)
(* Klein.addFactory and Klein.redirect, and the per-request adapter        *)
(* KleinRequest.  Strings are sequences of one-character strings, so that  *)
(* str.endswith, str + str and str.split are computed, not assumed.        *)
(* The dispatch of a request (klein/resource.py) and the rule matching     *)
(* (werkzeug) are not part of src/; they are modelled from spec.md 4.3.    *)
(* The capture '<path:__rest__>' is werkzeug's path converter, which takes *)
(* one character or more: the mount point itself is matched by the exact   *)
(* rule, not by the branch rule.                                           *)
(***************************************************************************)
EXTENDS Naturals, Sequences, FiniteSets, TLC

VARIABLES url_map, endpoints, request_handlers, factories, decos, frame, calls, req

vars == <<url_map, endpoints, request_handlers, factories, decos, frame, calls, req>>

app == <<url_map, endpoints, request_handlers, factories>>

(* ------------------------------ bounds --------------------------------- *)

\* decorator applications (route(...)(f) and routeUrl) made on the application
MaxCalls == 2

\* configuration calls made on the application: decorator applications,
\* addRequestHandler and addFactory together
MaxConfig == 3

(* ------------------------------ strings -------------------------------- *)

\* the path separator tested at app.py:96 and split on at app.py:102
Sep == "/"

\* '_branch', app.py:98
BranchSuffix == <<"_", "b", "r", "a", "n", "c", "h">>

\* '__rest__', app.py:102 and app.py:106
RestKey == <<"_", "_", "r", "e", "s", "t", "_", "_">>

\* '<path:__rest__>', app.py:106
RestCapture == <<"<", "p", "a", "t", "h", ":">> \o RestKey \o <<">">>

\* mutant of endswith: the suffix is looked for anywhere in s
endswith_contains(s, suffix) ==
    \E i \in 1..Len(s) : i + Len(suffix) - 1 <= Len(s) /\ SubSeq(s, i, i + Len(suffix) - 1) = suffix

\* str.endswith
endswith(s, suffix) ==
    /\ Len(s) >= Len(suffix)
    /\ SubSeq(s, Len(s) - Len(suffix) + 1, Len(s)) = suffix

\* index of the first occurrence of the character c in s at or after i, 0 if none
RECURSIVE find(_, _, _)
find(s, c, i) ==
    IF i > Len(s) THEN 0
    ELSE IF s[i] = c THEN i
    ELSE find(s, c, i + 1)

\* str.split(c) for a one-character separator: ''.split('/') is [''], and
\* 'a//b'.split('/') is ['a', '', 'b']
RECURSIVE split(_, _)
split(s, c) ==
    LET i == find(s, c, 1)
    IN  IF i = 0 THEN <<s>>
        ELSE <<SubSeq(s, 1, i - 1)>> \o split(SubSeq(s, i + 1, Len(s)), c)

(* ------------------------------- inputs -------------------------------- *)

UrlA == <<"/", "a", "/">>
UrlB == <<"/", "b">>

\* the url patterns given to route and routeUrl
Urls == {UrlA, UrlB}

NameF == <<"f">>
NameE == <<"e">>

\* the handler functions of the user, each with its __name__; f_branch is a
\* user function whose name ends in '_branch'
Funcs == { [kind |-> "func", name |-> n] : n \in {NameF, NameF \o BranchSuffix} }

\* the keyword options given to route and routeUrl (passed on to Rule)
NoKwargs == <<>>
Options == { NoKwargs,
             "endpoint" :> NameE,
             "methods" :> {"POST"} }

\* pre-dispatch hooks and (port, factory) pairs
Hooks == {"h1", "h2"}
Factories == { <<8081, "factory">> }

\* requests: (method, path)
Requests == { <<"GET",  UrlA>>,
              <<"GET",  UrlA \o <<"s", "/", "p">> >>,
              <<"GET",  UrlB>>,
              <<"POST", UrlB>>,
              <<"GET",  <<"/", "c">> >> }

\* redirect targets
Targets == { UrlB }

NOT_DONE_YET == "NOT_DONE_YET"

(* --------------------------- KleinRequest ------------------------------ *)

\* KleinRequest.__init__: branch_segments = [''], mapper = None
KleinRequest == [branch_segments |-> << <<>> >>, mapper |-> "None"]

(* ----------------------------- Klein.route ----------------------------- *)

\* dict.setdefault(key, value)
setdefault(kw, key, value) == IF key \in DOMAIN kw THEN kw ELSE (key :> value) @@ kw

\* mutant of BranchKwargs: the suffix is not appended
BranchKwargs_same(kwargs) == kwargs

\* app.py:97-98: branchKwargs = kwargs.copy(); its endpoint gets '_branch' appended
BranchKwargs(kwargs) == [kwargs EXCEPT !["endpoint"] = @ \o BranchSuffix]

\* Rule(string, **kwargs)
Rule(string, kwargs) == [rule |-> string, kwargs |-> kwargs]

\* Map.add(rule): rules are kept in the order added
MapAdd(map, rule) == Append(map, rule)

\* the wrapper branch_f closing over f (app.py:100-103)
BranchF(f) == [kind |-> "branch_f", f |-> f]

\* self._endpoints[key] = value
SetItem(d, key, value) == (key :> value) @@ d

Init ==
    /\ url_map = <<>>
    /\ endpoints = <<>>
    /\ request_handlers = <<>>
    /\ factories = <<>>
    /\ decos = <<>>
    /\ frame = <<>>
    /\ calls = <<>>
    /\ req = <<>>

Idle == frame = <<>> /\ req = <<>>

\* the number of configuration calls made so far
ConfigSize == Len(calls) + Len(request_handlers) + Len(factories)

\* a call of deco(f): the frame of the call, at its first line
Call(url, options, kwargs, f, via, shared) ==
    [pc |-> "L95", url |-> url, options |-> options, kwargs |-> kwargs,
     branchKwargs |-> NoKwargs, f |-> f, via |-> via, shared |-> shared,
     url_map0 |-> url_map, endpoints0 |-> endpoints]

\* @app.route(url, **kwargs) applied to f: route returns the closure deco, which
\* keeps url and the dict kwargs, and deco(f) is called; the closure stays alive
Route ==
    /\ Idle
    /\ Len(calls) < MaxCalls /\ ConfigSize < MaxConfig
    /\ \E url \in Urls, options \in Options, f \in Funcs :
           /\ decos' = << [url |-> url, options |-> options, kwargs |-> options] >>
           /\ frame' = << Call(url, options, options, f, "route", TRUE) >>
    /\ UNCHANGED <<url_map, endpoints, request_handlers, factories, calls, req>>

\* deco(f) is called again on the decorator that route returned earlier
ApplyDeco ==
    /\ Idle
    /\ decos # <<>>
    /\ Len(calls) < MaxCalls /\ ConfigSize < MaxConfig
    /\ \E f \in Funcs :
           frame' = << Call(decos[1].url, decos[1].options, decos[1].kwargs, f, "deco", TRUE) >>
    /\ UNCHANGED <<url_map, endpoints, request_handlers, factories, decos, calls, req>>

\* mutant of RouteUrl: the options are not passed on to route
RouteUrl_noOptions ==
    /\ frame = <<>> /\ req = <<>>
    /\ Len(calls) < MaxCalls /\ Len(calls) + Len(request_handlers) + Len(factories) < MaxConfig
    /\ \E url \in Urls, options \in Options, f \in Funcs :
           frame' = << [pc |-> "L95", url |-> url, options |-> options, kwargs |-> NoKwargs,
                        branchKwargs |-> NoKwargs, f |-> f, via |-> "routeUrl", shared |-> FALSE,
                        url_map0 |-> url_map, endpoints0 |-> endpoints] >>
    /\ UNCHANGED <<url_map, endpoints, request_handlers, factories, decos, calls, req>>

\* routeUrl(url, func, **kwargs): deco = self.route(url, **kwargs); deco(func)
RouteUrl ==
    /\ Idle
    /\ Len(calls) < MaxCalls /\ ConfigSize < MaxConfig
    /\ \E url \in Urls, options \in Options, f \in Funcs :
           frame' = << Call(url, options, options, f, "routeUrl", FALSE) >>
    /\ UNCHANGED <<url_map, endpoints, request_handlers, factories, decos, calls, req>>

AtLine(l) == frame # <<>> /\ frame[1].pc = l

\* app.py:95: kwargs.setdefault('endpoint', f.__name__), on the dict the closure keeps
Deco_L95 ==
    /\ AtLine("L95")
    /\ LET fr == frame[1]
           kw == setdefault(fr.kwargs, "endpoint", fr.f.name)
       IN  /\ frame' = << [fr EXCEPT !.kwargs = kw, !.pc = "L96"] >>
           /\ decos' = IF fr.shared THEN << [decos[1] EXCEPT !.kwargs = kw] >> ELSE decos
    /\ UNCHANGED <<url_map, endpoints, request_handlers, factories, calls, req>>

\* app.py:96-98: if url.endswith('/'): branchKwargs = ...
Deco_L96 ==
    /\ AtLine("L96")
    /\ LET fr == frame[1]
       IN  IF endswith(fr.url, <<Sep>>)
           THEN frame' = << [fr EXCEPT !.branchKwargs = BranchKwargs(fr.kwargs), !.pc = "L105"] >>
           ELSE frame' = << [fr EXCEPT !.pc = "L108"] >>
    /\ UNCHANGED <<url_map, endpoints, request_handlers, factories, decos, calls, req>>

\* mutant of Deco_L105: the branch endpoint is not stored
Deco_L105_skip ==
    /\ frame # <<>> /\ frame[1].pc = "L105"
    /\ frame' = << [frame[1] EXCEPT !.pc = "L106"] >>
    /\ UNCHANGED <<url_map, endpoints, request_handlers, factories, decos, calls, req>>

\* app.py:105: self._endpoints[branchKwargs['endpoint']] = branch_f
Deco_L105 ==
    /\ AtLine("L105")
    /\ LET fr == frame[1]
       IN  /\ endpoints' = SetItem(endpoints, fr.branchKwargs["endpoint"], BranchF(fr.f))
           /\ frame' = << [fr EXCEPT !.pc = "L106"] >>
    /\ UNCHANGED <<url_map, request_handlers, factories, decos, calls, req>>

\* app.py:106: self._url_map.add(Rule(url + '<path:__rest__>', *args, **branchKwargs))
Deco_L106 ==
    /\ AtLine("L106")
    /\ LET fr == frame[1]
       IN  /\ url_map' = MapAdd(url_map, Rule(fr.url \o RestCapture, fr.branchKwargs))
           /\ frame' = << [fr EXCEPT !.pc = "L108"] >>
    /\ UNCHANGED <<endpoints, request_handlers, factories, decos, calls, req>>

\* app.py:108: self._endpoints[kwargs['endpoint']] = f
Deco_L108 ==
    /\ AtLine("L108")
    /\ LET fr == frame[1]
       IN  /\ endpoints' = SetItem(endpoints, fr.kwargs["endpoint"], fr.f)
           /\ frame' = << [fr EXCEPT !.pc = "L109"] >>
    /\ UNCHANGED <<url_map, request_handlers, factories, decos, calls, req>>

\* app.py:109: self._url_map.add(Rule(url, *args, **kwargs))
Deco_L109 ==
    /\ AtLine("L109")
    /\ LET fr == frame[1]
       IN  /\ url_map' = MapAdd(url_map, Rule(fr.url, fr.kwargs))
           /\ frame' = << [fr EXCEPT !.pc = "L110"] >>
    /\ UNCHANGED <<endpoints, request_handlers, factories, decos, calls, req>>

\* app.py:110: return f; the call is over and is added to the log of calls
Deco_L110 ==
    /\ AtLine("L110")
    /\ LET fr == frame[1]
       IN  calls' = Append(calls, [url |-> fr.url, options |-> fr.options,
                                    endpoint |-> fr.kwargs["endpoint"], f |-> fr.f])
    /\ frame' = <<>>
    /\ UNCHANGED <<url_map, endpoints, request_handlers, factories, decos, req>>

\* mutant of AddRequestHandler: the hook is put first
AddRequestHandler_prepend ==
    /\ frame = <<>> /\ req = <<>>
    /\ Len(calls) + Len(request_handlers) + Len(factories) < MaxConfig
    /\ \E func \in Hooks : request_handlers' = <<func>> \o request_handlers
    /\ UNCHANGED <<url_map, endpoints, factories, decos, frame, calls, req>>

\* addRequestHandler(func): self._request_handlers.append(func)
AddRequestHandler ==
    /\ Idle
    /\ ConfigSize < MaxConfig
    /\ \E func \in Hooks : request_handlers' = Append(request_handlers, func)
    /\ UNCHANGED <<url_map, endpoints, factories, decos, frame, calls, req>>

\* addFactory(port, factory): self.factories.append((port, factory))
AddFactory ==
    /\ Idle
    /\ ConfigSize < MaxConfig
    /\ \E pf \in Factories : factories' = Append(factories, pf)
    /\ UNCHANGED <<url_map, endpoints, request_handlers, decos, frame, calls, req>>

(* ------------------------------ dispatch ------------------------------- *)
(* The router and the dispatch of a request are not in src/ (werkzeug and  *)
(* klein/resource.py); they follow spec.md 4.3: the hooks in registration  *)
(* order, then the first rule in insertion order whose pattern and method  *)
(* match, then the lookup of its endpoint and the call of the handler.     *)

IsPrefix(p, s) == Len(p) <= Len(s) /\ SubSeq(s, 1, Len(p)) = p

\* a rule made at app.py:106 ends in the greedy capture
IsBranchRule(r) == endswith(r.rule, RestCapture)

MountPoint(r) == SubSeq(r.rule, 1, Len(r.rule) - Len(RestCapture))

\* a branch rule matches the paths under its mount point, its capture taking
\* one character or more; an exact rule matches its own pattern
PathMatches(r, path) ==
    IF IsBranchRule(r)
    THEN IsPrefix(MountPoint(r), path) /\ Len(path) > Len(MountPoint(r))
    ELSE r.rule = path

MethodAllowed(r, method) ==
    "methods" \notin DOMAIN r.kwargs \/ method \in r.kwargs["methods"]

\* the parameters extracted by a matching rule: the capture __rest__ of a branch rule
Extracted(r, path) ==
    IF IsBranchRule(r)
    THEN RestKey :> SubSeq(path, Len(MountPoint(r)) + 1, Len(path))
    ELSE NoKwargs

Matching(map, method, path) ==
    { i \in 1..Len(map) : PathMatches(map[i], path) /\ MethodAllowed(map[i], method) }

\* the first matching rule in insertion order, 0 if there is none
FirstMatch(map, method, path) ==
    LET m == Matching(map, method, path)
    IN  IF m = {} THEN 0 ELSE CHOOSE i \in m : \A j \in m : i <= j

\* the outcome when no rule matches
NoMatch(map, path) ==
    IF \E i \in 1..Len(map) : PathMatches(map[i], path)
    THEN "MethodNotAllowed" ELSE "NotFound"

\* dict.pop(key, default): the value, and the dict without the key
PopValue(kw, key, default) == IF key \in DOMAIN kw THEN kw[key] ELSE default
PopRest(kw, key) == [k \in DOMAIN kw \ {key} |-> kw[k]]

\* app.py:102: kw.pop('__rest__', '').split('/')
BranchSegments(kw) == split(PopValue(kw, RestKey, <<>>), Sep)

\* a request arrives; its adapter KleinRequest is in its initial state
Receive ==
    /\ Idle
    /\ \E r \in Requests :
           req' = << [method |-> r[1], path |-> r[2], ctx |-> KleinRequest,
                      pc |-> "hooks", ran |-> <<>>, rule |-> 0, kw |-> NoKwargs,
                      handler |-> <<>>, called |-> <<>>, args |-> NoKwargs,
                      result |-> "", location |-> <<>>, finished |-> 0] >>
    /\ UNCHANGED <<url_map, endpoints, request_handlers, factories, decos, frame, calls>>

At(l) == req # <<>> /\ req[1].pc = l

\* step 1: the next pre-dispatch hook is run on the request
RunHook ==
    /\ At("hooks")
    /\ Len(req[1].ran) < Len(request_handlers)
    /\ req' = << [req[1] EXCEPT !.ran = Append(@, request_handlers[Len(@) + 1])] >>
    /\ UNCHANGED <<url_map, endpoints, request_handlers, factories, decos, frame, calls>>

\* step 2: the router matches (method, path) against the rules
MatchRequest ==
    /\ At("hooks")
    /\ Len(req[1].ran) = Len(request_handlers)
    /\ LET i == FirstMatch(url_map, req[1].method, req[1].path)
       IN  IF i = 0
           THEN req' = << [req[1] EXCEPT !.pc = NoMatch(url_map, req[1].path)] >>
           ELSE req' = << [req[1] EXCEPT !.pc = "matched", !.rule = i,
                                         !.kw = Extracted(url_map[i], req[1].path)] >>
    /\ UNCHANGED <<url_map, endpoints, request_handlers, factories, decos, frame, calls>>

\* branch_f(request, **kw), app.py:101-103: the segments are stored on the
\* adapter and f is called without __rest__
Call_branch_f(r, h) ==
    [r EXCEPT !.ctx.branch_segments = BranchSegments(r.kw),
              !.called = h.f.name,
              !.args = PopRest(r.kw, RestKey)]

\* a handler of the user is called with the extracted parameters
Call_func(r, h) == [r EXCEPT !.called = h.name, !.args = r.kw]

\* steps 3 and 4: the endpoint of the matched rule is looked up and called
CallEndpoint ==
    /\ At("matched")
    /\ LET r == req[1]
           h == endpoints[url_map[r.rule].kwargs["endpoint"]]
           r1 == [r EXCEPT !.handler = <<h>>, !.pc = "handler"]
       IN  req' = << IF h.kind = "branch_f" THEN Call_branch_f(r1, h) ELSE Call_func(r1, h) >>
    /\ UNCHANGED <<url_map, endpoints, request_handlers, factories, decos, frame, calls>>

\* the handler returns a response body
HandlerReturns ==
    /\ At("handler")
    /\ req' = << [req[1] EXCEPT !.result = "body", !.pc = "done"] >>
    /\ UNCHANGED <<url_map, endpoints, request_handlers, factories, decos, frame, calls>>

\* the handler calls app.redirect(request, url); app.py:153: request.redirect(url)
Redirect_L153 ==
    /\ At("handler")
    /\ \E url \in Targets : req' = << [req[1] EXCEPT !.location = url, !.pc = "L154"] >>
    /\ UNCHANGED <<url_map, endpoints, request_handlers, factories, decos, frame, calls>>

\* mutant of Redirect_L154: finish is not called
Redirect_L154_nofinish ==
    /\ req # <<>> /\ req[1].pc = "L154"
    /\ req' = << [req[1] EXCEPT !.pc = "L155"] >>
    /\ UNCHANGED <<url_map, endpoints, request_handlers, factories, decos, frame, calls>>

\* app.py:154: request.finish()
Redirect_L154 ==
    /\ At("L154")
    /\ req' = << [req[1] EXCEPT !.finished = @ + 1, !.pc = "L155"] >>
    /\ UNCHANGED <<url_map, endpoints, request_handlers, factories, decos, frame, calls>>

\* app.py:155: return NOT_DONE_YET, which the handler returns in turn
Redirect_L155 ==
    /\ At("L155")
    /\ req' = << [req[1] EXCEPT !.result = NOT_DONE_YET, !.pc = "done"] >>
    /\ UNCHANGED <<url_map, endpoints, request_handlers, factories, decos, frame, calls>>

\* the request is over and is dropped with its adapter
Close ==
    /\ req # <<>>
    /\ req[1].pc \in {"done", "NotFound", "MethodNotAllowed"}
    /\ req' = <<>>
    /\ UNCHANGED <<url_map, endpoints, request_handlers, factories, decos, frame, calls>>

(* ------------------------------- claims -------------------------------- *)

\* the whole effect of deco(f) (app.py:94-110) on the rules and the endpoints,
\* for a decorator whose dict is kwargs when deco is entered
DecoEffect(map, eps, url, kwargs, f) ==
    LET kw == setdefault(kwargs, "endpoint", f.name)
        bkw == BranchKwargs(kw)
    IN  IF endswith(url, <<Sep>>)
        THEN [url_map |-> MapAdd(MapAdd(map, Rule(url \o RestCapture, bkw)), Rule(url, kw)),
              endpoints |-> SetItem(SetItem(eps, bkw["endpoint"], BranchF(f)), kw["endpoint"], f)]
        ELSE [url_map |-> MapAdd(map, Rule(url, kw)),
              endpoints |-> SetItem(eps, kw["endpoint"], f)]

\* the pattern's last character is the path separator
EndsInSep(url) == Len(url) > 0 /\ url[Len(url)] = Sep

\* the keys of the registry other than those in ks are as they were when deco was entered
OthersKept(fr, ks) ==
    /\ DOMAIN endpoints = DOMAIN fr.endpoints0 \cup ks
    /\ \A k \in DOMAIN fr.endpoints0 \ ks : endpoints[k] = fr.endpoints0[k]

\* C1: when deco has made its insertions for a pattern ending in '/', the rules
\* are those of the entry state followed by exactly two new ones, the branch
\* rule (pattern + '<path:__rest__>') and the exact rule; exactly two keys of the
\* registry were written, the endpoint and the endpoint + '_branch', the first
\* holding the handler and the second its branch wrapper; every other key is as
\* it was.  This holds whatever was registered before.
C1_BranchRegistration ==
    (AtLine("L110") /\ EndsInSep(frame[1].url)) =>
        LET fr == frame[1]
            n == Len(fr.url_map0)
            ep == fr.kwargs["endpoint"]
            bep == ep \o BranchSuffix
        IN  /\ Len(url_map) = n + 2
            /\ SubSeq(url_map, 1, n) = fr.url_map0
            /\ url_map[n + 1].rule = fr.url \o RestCapture
            /\ url_map[n + 1].kwargs["endpoint"] = bep
            /\ url_map[n + 2].rule = fr.url
            /\ url_map[n + 2].kwargs["endpoint"] = ep
            /\ Cardinality({ep, bep}) = 2
            /\ OthersKept(fr, {ep, bep})
            /\ endpoints[ep] = fr.f
            /\ endpoints[bep] = BranchF(fr.f)

\* a branch registration made after an earlier one, under a name already registered
C1_Witness ==
    /\ AtLine("L110")
    /\ EndsInSep(frame[1].url)
    /\ Len(frame[1].url_map0) > 0
    /\ frame[1].kwargs["endpoint"] \in DOMAIN frame[1].endpoints0

\* C2: when deco has made its insertions for a pattern not ending in '/', the
\* rules are those of the entry state followed by exactly one new rule, the exact
\* rule, and exactly one key of the registry was written, the endpoint, holding
\* the handler; no branch rule is added and no key endpoint + '_branch' is written.
C2_PlainRegistration ==
    (AtLine("L110") /\ ~EndsInSep(frame[1].url)) =>
        LET fr == frame[1]
            n == Len(fr.url_map0)
            ep == fr.kwargs["endpoint"]
        IN  /\ Len(url_map) = n + 1
            /\ SubSeq(url_map, 1, n) = fr.url_map0
            /\ url_map[n + 1].rule = fr.url
            /\ url_map[n + 1].kwargs["endpoint"] = ep
            /\ ~IsBranchRule(url_map[n + 1])
            /\ OthersKept(fr, {ep})
            /\ endpoints[ep] = fr.f

\* a plain registration made after an earlier branch registration
C2_Witness ==
    /\ AtLine("L110")
    /\ ~EndsInSep(frame[1].url)
    /\ \E i \in 1..Len(frame[1].url_map0) : IsBranchRule(frame[1].url_map0[i])

\* the pattern a rule was registered for: a branch rule's mount point, an exact
\* rule's own pattern
Registered(r) == IF IsBranchRule(r) THEN MountPoint(r) ELSE r.rule

\* the remainder of the request's path after the registered pattern of its rule
Remainder(r) == SubSeq(r.path, Len(Registered(url_map[r.rule])) + 1, Len(r.path))

\* C3: when the handler of a request has been called for a rule registered for
\* a pattern P ending in '/', the request's branch_segments are the remainder
\* of its path after P split on '/' ([''] for the mount point itself, ['s', 'p']
\* for 's/p'); branch_segments is never the empty sequence.
C3_BranchSegments ==
    req # <<>> =>
        /\ req[1].ctx.branch_segments # <<>>
        /\ (req[1].pc = "handler" /\ EndsInSep(Registered(url_map[req[1].rule]))) =>
               req[1].ctx.branch_segments = split(Remainder(req[1]), Sep)

\* C4: when the last two decorator applications were given the same explicit
\* endpoint, a request that matches a rule made by either of them (its exact
\* rule or its branch rule) is handled by the handler of the second.
C4_LastRegistrationWins ==
    (/\ Len(calls) = 2
     /\ "endpoint" \in DOMAIN calls[1].options
     /\ "endpoint" \in DOMAIN calls[2].options
     /\ calls[1].options["endpoint"] = calls[2].options["endpoint"]
     /\ At("handler")
     /\ \E c \in 1..2 :
            url_map[req[1].rule].rule \in {calls[c].url, calls[c].url \o RestCapture})
    => req[1].called = calls[2].f.name

\* C5: every endpoint name carried by a rule is a key of the registry, in every
\* state, those between two lines of deco included; the lookup of a matched
\* rule's endpoint finds a handler.
C5_RuleEndpointsRegistered ==
    /\ \A i \in 1..Len(url_map) : url_map[i].kwargs["endpoint"] \in DOMAIN endpoints
    /\ At("matched") => url_map[req[1].rule].kwargs["endpoint"] \in DOMAIN endpoints

\* inside a branch registration made after a hook and a factory were added: the
\* branch rule is in the map, the exact rule is not yet
C5_Witness ==
    /\ AtLine("L108")
    /\ Len(url_map) = Len(frame[1].url_map0) + 1
    /\ request_handlers # <<>>

\* the hooks run so far on the request are the first registered ones, in order
HooksInOrder ==
    req # <<>> =>
        LET r == req[1]
        IN  /\ Len(r.ran) <= Len(request_handlers)
            /\ r.ran = SubSeq(request_handlers, 1, Len(r.ran))
            /\ r.pc = "hooks" => (r.rule = 0 /\ r.handler = <<>> /\ r.called = <<>>)
            /\ r.pc # "hooks" => r.ran = request_handlers

\* a step that changes the hook list appends one hook to it
HooksAppendOnly ==
    request_handlers' # request_handlers =>
        \E h \in Hooks : request_handlers' = Append(request_handlers, h)

\* C6: for every request the hooks are run once each in registration order,
\* all of them before the rules are matched and before any handler is called,
\* whatever the outcome of the match; addRequestHandler only appends.
C6_HooksBeforeRouting == []HooksInOrder /\ [][HooksAppendOnly]_vars

\* two different hooks were run, then the request was refused for its method
C6_Witness ==
    /\ At("MethodNotAllowed")
    /\ Len(req[1].ran) = 2
    /\ req[1].ran[1] # req[1].ran[2]

\* C7: a decorator made by route without an endpoint option stores every
\* handler it is applied to under the handler's own name.
C7_DefaultEndpoint ==
    (AtLine("L110") /\ "endpoint" \notin DOMAIN frame[1].options) =>
        /\ frame[1].kwargs["endpoint"] = frame[1].f.name
        /\ frame[1].f.name \in DOMAIN endpoints
        /\ endpoints[frame[1].f.name] = frame[1].f

\* at the end of a routeUrl call and of a first application of a route
\* decorator alike, the rules and the registry are those deco(f) yields from the
\* call's entry state for the url, the options and the handler of the call
SameAsDecorator ==
    (AtLine("L110") /\ frame[1].via \in {"route", "routeUrl"}) =>
        LET fr == frame[1]
        IN  [url_map |-> url_map, endpoints |-> endpoints]
                = DecoEffect(fr.url_map0, fr.endpoints0, fr.url, fr.options, fr.f)

\* a registration leaves the hooks and the factories alone
RegistrationKeepsLists ==
    frame # <<>> => (request_handlers' = request_handlers /\ factories' = factories)

\* C8: routeUrl(url, f, **options) and route(url, **options)(f), from the same
\* state, leave the same rules in the same order and the same registry, and
\* neither changes the hooks or the factories.
C8_RouteUrlIsRoute == []SameAsDecorator /\ [][RegistrationKeepsLists]_vars

\* routeUrl has registered a branch pattern with an explicit endpoint after
\* an earlier registration
C8_Witness ==
    /\ AtLine("L110")
    /\ frame[1].via = "routeUrl"
    /\ EndsInSep(frame[1].url)
    /\ "endpoint" \in DOMAIN frame[1].options
    /\ Len(frame[1].url_map0) > 0

\* the location is set before finish is called, finish is called once, and the
\* sentinel is returned after both
RedirectOrder ==
    req # <<>> =>
        LET r == req[1]
        IN  /\ r.pc = "L154" => (r.location \in Targets /\ r.finished = 0 /\ r.result = "")
            /\ r.pc = "L155" => (r.location \in Targets /\ r.finished = 1 /\ r.result = "")
            /\ r.result = NOT_DONE_YET => (r.location \in Targets /\ r.finished = 1)

\* a step of redirect leaves the application alone
RedirectKeepsApp ==
    (req # <<>> /\ req[1].pc \in {"handler", "L154", "L155"}) =>
        (app' = app /\ decos' = decos)

\* C9: redirect sets the location, then finishes the request once, then returns
\* NOT_DONE_YET, and changes nothing of the application.
C9_Redirect == []RedirectOrder /\ [][RedirectKeepsApp]_vars

\* redirect has returned
C9_Witness ==
    /\ At("done")
    /\ req[1].result = NOT_DONE_YET
    /\ req[1].finished = 1

\* C10: the handler looked up for a matched branch rule is a branch wrapper,
\* and a handler of the user is never called with __rest__.
C10_BranchRuleHasWrapper ==
    req # <<>> =>
        /\ RestKey \notin DOMAIN req[1].args
        /\ (req[1].pc = "handler" /\ IsBranchRule(url_map[req[1].rule])) =>
               req[1].handler[1].kind = "branch_f"

Next ==
    \/ Route
    \/ ApplyDeco
    \/ RouteUrl
    \/ Deco_L95
    \/ Deco_L96
    \/ Deco_L105
    \/ Deco_L106
    \/ Deco_L108
    \/ Deco_L109
    \/ Deco_L110
    \/ AddRequestHandler
    \/ AddFactory
    \/ Receive
    \/ RunHook
    \/ MatchRequest
    \/ CallEndpoint
    \/ HandlerReturns
    \/ Redirect_L153
    \/ Redirect_L154
    \/ Redirect_L155
    \/ Close

Spec == Init /\ [][Next]_vars

====
